---- MODULE Spec2Model ----
(***************************************************************************)
(* Model of the LinkedIn automation bot: the schedule and quota guard,     *)
(* the target store (table "profiles") and the lifecycle orchestrator of   *)
(* cmd/bot/main.go with its three stages (search, connect, message).       *)
(*                                                                         *)
(* Text is modelled as a sequence of one-character strings, so that the    *)
(* parsing of the configured times is computed the way strconv.Atoi and    *)
(* strings.Split compute it.  A profile link is a sequence of tokens, each *)
(* token standing for one fixed piece of the URL text.                     *)
(*                                                                         *)
(* Timestamps are wall-clock minutes: created_at is written from the       *)
(* process's local clock (time.Now), updated_at from SQLite's              *)
(* CURRENT_TIMESTAMP, which is the UTC wall clock.  SQLite compares the    *)
(* stored date-time texts, i.e. the wall-clock values as written.          *)
(***************************************************************************)
EXTENDS Integers, Sequences, FiniteSets, TLC

\* ------------------------------------------------------------------------
\* Bounds of the model
\* ------------------------------------------------------------------------
\* configured DAILY_INVITE_LIMIT of the modelled runs
InviteLimit == 2
\* configured DAILY_SEARCH_LIMIT of the modelled runs
SearchLimit == 2
\* configured MAX_PAGES_TO_SCRAPE of the modelled runs
MaxPages == 2
\* largest number of anchors on one result page
MaxLinks == 2
\* last modelled local day (day 0 is the first)
MaxDay == 1

\* ------------------------------------------------------------------------
\* Program constants
\* ------------------------------------------------------------------------
DayMinutes == 1440
\* batch limit passed to SendMessages by runMessageMode
MessageBatch == 10

\* ------------------------------------------------------------------------
\* strconv.Atoi and strings.Split on text
\* ------------------------------------------------------------------------
DigitSeq == <<"0", "1", "2", "3", "4", "5", "6", "7", "8", "9">>

Digits == {DigitSeq[i] : i \in 1..10}

DigitVal(c) == (CHOOSE i \in 1..10 : DigitSeq[i] = c) - 1

AllDigits(s) == \A i \in 1..Len(s) : s[i] \in Digits

RECURSIVE DigitsValue(_)
DigitsValue(s) ==
  IF s = <<>> THEN 0
  ELSE DigitsValue(SubSeq(s, 1, Len(s) - 1)) * 10 + DigitVal(s[Len(s)])

\* strconv.Atoi: an optional sign followed by one or more decimal digits
Atoi(s) ==
  LET signed == s # <<>> /\ s[1] \in {"+", "-"}
      body == IF signed THEN Tail(s) ELSE s
  IN IF body = <<>> \/ ~AllDigits(body)
     THEN [err |-> TRUE, val |-> 0]
     ELSE [err |-> FALSE,
           val |-> IF signed /\ s[1] = "-" THEN 0 - DigitsValue(body)
                   ELSE DigitsValue(body)]

\* strings.Split(s, sep) for a one-character separator
RECURSIVE Split(_, _)
Split(s, sep) ==
  IF \E i \in 1..Len(s) : s[i] = sep
  THEN LET i == CHOOSE k \in 1..Len(s) :
                   s[k] = sep /\ \A j \in 1..(k - 1) : s[j] # sep
       IN <<SubSeq(s, 1, i - 1)>> \o Split(SubSeq(s, i + 1, Len(s)), sep)
  ELSE <<s>>

\* ------------------------------------------------------------------------
\* internal/config: Load
\* ------------------------------------------------------------------------
isValidTimeFormat(timeStr) ==
  IF Len(timeStr) # 5 THEN FALSE
  ELSE IF timeStr[3] # ":" THEN FALSE
  ELSE LET hour == Atoi(SubSeq(timeStr, 1, 2))
           minute == Atoi(SubSeq(timeStr, 4, 5))
       IN IF hour.err \/ minute.err THEN FALSE
          ELSE hour.val >= 0 /\ hour.val <= 23
               /\ minute.val >= 0 /\ minute.val <= 59

getEnvOrDefault(value, defaultValue) ==
  IF value = <<>> THEN defaultValue ELSE value

DefaultWorkStart == <<"0", "9", ":", "0", "0">>

DefaultWorkEnd == <<"2", "1", ":", "0", "0">>

\* Load: the Config built from the environment, or the validation error
Load(environ) ==
  LET ws == getEnvOrDefault(environ.WorkStart, DefaultWorkStart)
      we == getEnvOrDefault(environ.WorkEnd, DefaultWorkEnd)
  IN IF ~isValidTimeFormat(ws) \/ ~isValidTimeFormat(we)
     THEN [err |-> TRUE, WorkStart |-> <<>>, WorkEnd |-> <<>>]
     ELSE [err |-> FALSE, WorkStart |-> ws, WorkEnd |-> we]

\* ------------------------------------------------------------------------
\* internal/guard: CheckWorkingHours
\* ------------------------------------------------------------------------
Saturday == 6

Sunday == 0

\* weekday of local day 0: a Friday, the last working day before a weekend
StartWeekday == Saturday - 1

\* the result is "ok" for a nil error, otherwise the kind of the error
CheckWorkingHours_EndInclusive(WorkStart, WorkEnd, weekday, currentMinutes) ==
  IF weekday = Saturday \/ weekday = Sunday THEN "weekend"
  ELSE LET startParts == Split(WorkStart, ":")
           endParts == Split(WorkEnd, ":")
       IN IF Len(startParts) # 2 THEN "invalid WorkStart format"
          ELSE IF Atoi(startParts[1]).err THEN "invalid WorkStart hour"
          ELSE IF Atoi(startParts[2]).err THEN "invalid WorkStart minute"
          ELSE IF Len(endParts) # 2 THEN "invalid WorkEnd format"
          ELSE IF Atoi(endParts[1]).err THEN "invalid WorkEnd hour"
          ELSE IF Atoi(endParts[2]).err THEN "invalid WorkEnd minute"
          ELSE LET startMinutes == Atoi(startParts[1]).val * 60
                                     + Atoi(startParts[2]).val
                   endMinutes == Atoi(endParts[1]).val * 60
                                   + Atoi(endParts[2]).val
               IN IF currentMinutes < startMinutes THEN "before"
                  ELSE IF currentMinutes > endMinutes THEN "after"
                  ELSE "ok"

CheckWorkingHours(WorkStart, WorkEnd, weekday, currentMinutes) ==
  IF weekday = Saturday \/ weekday = Sunday THEN "weekend"
  ELSE LET startParts == Split(WorkStart, ":")
           endParts == Split(WorkEnd, ":")
       IN IF Len(startParts) # 2 THEN "invalid WorkStart format"
          ELSE IF Atoi(startParts[1]).err THEN "invalid WorkStart hour"
          ELSE IF Atoi(startParts[2]).err THEN "invalid WorkStart minute"
          ELSE IF Len(endParts) # 2 THEN "invalid WorkEnd format"
          ELSE IF Atoi(endParts[1]).err THEN "invalid WorkEnd hour"
          ELSE IF Atoi(endParts[2]).err THEN "invalid WorkEnd minute"
          ELSE LET startMinutes == Atoi(startParts[1]).val * 60
                                     + Atoi(startParts[2]).val
                   endMinutes == Atoi(endParts[1]).val * 60
                                   + Atoi(endParts[2]).val
               IN IF currentMinutes < startMinutes THEN "before"
                  ELSE IF currentMinutes >= endMinutes THEN "after"
                  ELSE "ok"

\* ------------------------------------------------------------------------
\* The clock: local wall-clock minutes since local midnight of day 0
\* ------------------------------------------------------------------------
\* minute of the day of each modelled instant (09:00 and 21:00)
ClockSamples == {540, 1260}

\* UTC offsets of the local zone, in minutes (local = UTC + offset)
Offsets == {0, 600}

Times == {d * DayMinutes + m : d \in 0..MaxDay, m \in ClockSamples}

LocalDay(t) == t \div DayMinutes

MinuteOfDay(t) == t % DayMinutes

Weekday(t) == (StartWeekday + LocalDay(t)) % 7

\* time.Date(now.Year(), now.Month(), now.Day(), 0, 0, 0, 0, now.Location())
StartOfDay(t) == LocalDay(t) * DayMinutes

\* CURRENT_TIMESTAMP: the UTC wall clock at local time t
CurrentTimestamp(t, off) == t - off

\* ------------------------------------------------------------------------
\* internal/storage: the profiles table, a sequence of rows in rowid order
\* ------------------------------------------------------------------------
HasUrl(d, url) == \E i \in 1..Len(d) : d[i].url = url

\* INSERT OR IGNORE under UNIQUE(url); added is RowsAffected() > 0
AddProfile_Replace(d, url, t) ==
  LET row == [url |-> url, status |-> "found",
              created_at |-> t, updated_at |-> t]
  IN IF HasUrl(d, url)
     THEN [db |-> [i \in 1..Len(d) |-> IF d[i].url = url THEN row ELSE d[i]],
           added |-> TRUE]
     ELSE [db |-> Append(d, row), added |-> TRUE]

AddProfile(d, url, t) ==
  IF HasUrl(d, url)
  THEN [db |-> d, added |-> FALSE]
  ELSE [db |-> Append(d, [url |-> url, status |-> "found",
                          created_at |-> t, updated_at |-> t]),
        added |-> TRUE]

UpdateStatus(d, url, newStatus, utc) ==
  [i \in 1..Len(d) |->
     IF d[i].url = url
     THEN [d[i] EXCEPT !.status = newStatus, !.updated_at = utc]
     ELSE d[i]]

\* ORDER BY key ASC over the rows S; rows with equal keys in rowid order
RECURSIVE OrderBy(_, _, _)
OrderBy(d, S, key) ==
  LET Before(j, k) == d[j][key] < d[k][key]
                      \/ (d[j][key] = d[k][key] /\ j < k)
  IN [p \in 1..Cardinality(S) |->
        CHOOSE k \in S : Cardinality({j \in S : Before(j, k)}) = p - 1]

\* LIMIT n
Limit(s, n) == SubSeq(s, 1, IF n < Len(s) THEN n ELSE Len(s))

Urls(d, idx) == [k \in 1..Len(idx) |-> d[idx[k]].url]

GetProfilesToInvite_AnyStatus(d, limit) ==
  Urls(d, Limit(OrderBy(d, 1..Len(d), "created_at"), limit))

GetProfilesToInvite(d, limit) ==
  Urls(d, Limit(OrderBy(d, {i \in 1..Len(d) : d[i].status = "found"},
                        "created_at"), limit))

GetProfilesByStatus_Any(d, status, limit) ==
  Urls(d, Limit(OrderBy(d, 1..Len(d), "updated_at"), limit))

GetProfilesByStatus(d, status, limit) ==
  Urls(d, Limit(OrderBy(d, {i \in 1..Len(d) : d[i].status = status},
                        "updated_at"), limit))

\* ------------------------------------------------------------------------
\* internal/guard: the daily counters
\* ------------------------------------------------------------------------
GetTodayCount(d, t) ==
  Cardinality({i \in 1..Len(d) : d[i].created_at >= StartOfDay(t)})

\* rows that are invited and were last updated today
GetDailyInviteCount(d, t) ==
  Cardinality({i \in 1..Len(d) :
                 d[i].status = "invited" /\ d[i].updated_at >= StartOfDay(t)})

\* ------------------------------------------------------------------------
\* internal/linkedin: SearchPeople, the extraction of one result page
\* ------------------------------------------------------------------------
\* Tokens of a link: "L" is the text "linkedin.com/in/" with its scheme and
\* host, "a" and "b" are profile slugs, "/" a trailing slash, "?" the start
\* of the query string and "q" its text, "M" the text "/minis/", "G" the
\* text "google.com", "F" the feed path.
Hrefs ==
  { <<"L", "a">>, <<"L", "a", "/">>, <<"L", "a", "?", "q">>, <<"L", "b">>,
    <<"L", "a", "M">>, <<"G", "?", "L", "a">>, <<"F">> }

Contains(s, tok) == \E i \in 1..Len(s) : s[i] = tok

\* if idx := strings.Index(urlStr, "?"); idx != -1 { urlStr = urlStr[:idx] }
StripQuery(urlStr) ==
  IF Contains(urlStr, "?")
  THEN SubSeq(urlStr, 1,
              (CHOOSE k \in 1..Len(urlStr) :
                 urlStr[k] = "?" /\ \A j \in 1..(k - 1) : urlStr[j] # "?") - 1)
  ELSE urlStr

IsProfileLink(urlStr) ==
  Contains(urlStr, "L") /\ ~Contains(urlStr, "M") /\ ~Contains(urlStr, "G")

\* the loop over the anchors of one page: the store and newProfiles after it
RECURSIVE ScanLinks(_, _, _, _, _)
ScanLinks(links, d, uniqueOnPage, found, t) ==
  IF links = <<>> THEN [db |-> d, newProfiles |-> found]
  ELSE IF ~IsProfileLink(Head(links))
       THEN ScanLinks(Tail(links), d, uniqueOnPage, found, t)
  ELSE LET urlStr == StripQuery(Head(links))
           r == AddProfile(d, urlStr, t)
       IN IF urlStr \in uniqueOnPage
          THEN ScanLinks(Tail(links), d, uniqueOnPage, found, t)
          ELSE ScanLinks(Tail(links), r.db, uniqueOnPage \cup {urlStr},
                         IF r.added THEN Append(found, urlStr) ELSE found, t)

\* result pages the site can show: up to MaxLinks anchors each
ResultPages == UNION {[1..n -> Hrefs] : n \in 0..MaxLinks}

\* ------------------------------------------------------------------------
\* internal/linkedin: ConnectWithProfile
\* ------------------------------------------------------------------------
\* what a profile page shows: the Pending and Withdraw buttons, the direct
\* Connect button, the More button, the Connect item of its menu, the
\* Message button, the InMail button, and the Send button of the dialog
\* that a click on Connect opens
ProfileSignals ==
  {"pending", "withdraw", "connect", "more", "menuConnect", "message",
   "inmail", "send"}

Shows(signals, S) == [f \in signals |-> f \in S]

\* the profile pages the site shows in the modelled runs
ProfilePages ==
  { Shows(ProfileSignals, S) :
      S \in { {}, {"pending"}, {"withdraw"}, {"pending", "message"},
              {"withdraw", "message"}, {"connect"}, {"connect", "message"},
              {"connect", "send"}, {"more", "menuConnect", "send"},
              {"more"}, {"more", "menuConnect"},
              {"more", "menuConnect", "message"}, {"more", "message"},
              {"message"}, {"message", "inmail"}, {"inmail"} } }

\* the status returned for a profile page showing p
ConnectWithProfile_MessageFirst(p) ==
  IF p.message THEN "skipped_connected"
  ELSE IF p.pending THEN "skipped_pending"
  ELSE IF p.withdraw THEN "skipped_pending"
  ELSE IF p.connect \/ (p.more /\ p.menuConnect) THEN "clicked"
  ELSE IF p.inmail THEN "skipped_premium"
  ELSE "failed"

ConnectWithProfile(p) ==
  IF p.pending THEN "skipped_pending"
  ELSE IF p.withdraw THEN "skipped_pending"
  ELSE IF p.connect \/ (p.more /\ p.menuConnect) THEN "clicked"
  ELSE IF p.message THEN "skipped_connected"
  ELSE IF p.inmail THEN "skipped_premium"
  ELSE "failed"

\* ------------------------------------------------------------------------
\* internal/linkedin: SendMessages, one visit
\* ------------------------------------------------------------------------
\* what a visit of the messaging stage meets: the Message control, the
\* Pending/Withdraw button, the lock icon on the Message control, the chat
\* box after the click, the submit button, the Premium popup
MessageSignals == {"message", "pending", "lock", "chat", "send", "popup"}

\* the pages the messaging stage meets in the modelled runs
MessagePages ==
  { Shows(MessageSignals, S) :
      S \in { {}, {"pending"}, {"message", "pending", "chat", "send"},
              {"message", "lock"}, {"message", "lock", "chat", "send"},
              {"message", "chat", "send"}, {"message", "chat"},
              {"message", "popup"}, {"message"} } }

\* the status the visit writes, or "" when it writes none
MessageVisit_ChatOnly(p) ==
  IF ~p.message THEN (IF p.pending THEN "pending" ELSE "")
  ELSE IF p.lock THEN "premium_only"
  ELSE IF p.chat THEN "messaged"
  ELSE IF p.popup THEN "pending"
  ELSE ""

MessageVisit_NoLock(p) ==
  IF ~p.message THEN (IF p.pending THEN "pending" ELSE "")
  ELSE IF p.chat THEN (IF p.send THEN "messaged" ELSE "")
  ELSE IF p.popup THEN "pending"
  ELSE ""

MessageVisit(p) ==
  IF ~p.message THEN (IF p.pending THEN "pending" ELSE "")
  ELSE IF p.lock THEN "premium_only"
  ELSE IF p.chat THEN (IF p.send THEN "messaged" ELSE "")
  ELSE IF p.popup THEN "pending"
  ELSE ""

\* ------------------------------------------------------------------------
\* The state
\* ------------------------------------------------------------------------
VARIABLES
  now,          \* the local clock
  offset,       \* the UTC offset of the local zone
  db,           \* the profiles table
  pc,           \* position of the process in main; "off" when none runs
  mode,         \* the -mode flag of the run
  environ,      \* WORKING_HOURS_START / WORKING_HOURS_END of the run
  cfg,          \* the Config returned by Load
  dbOpen,       \* InitDB succeeded in this run
  browser,      \* NewBrowser and NewStealthPage succeeded in this run
  browsed,      \* the run has driven the browser (login or a navigation)
  exitCode,     \* exit code of the last finished run
  todayCount,   \* runSearchMode: created-today as counted at its start
  pageNum,      \* SearchPeople: the loop counter
  newProfiles,  \* SearchPeople: the URLs added by this run
  profiles,     \* runConnectMode / SendMessages: the batch still to visit
  cur,          \* the profileURL of the last visit
  page,         \* what the page of the last visit showed
  outcome,      \* the status returned by ConnectWithProfile, or the status
                \* written by the messaging visit
  successCount, \* runConnectMode: the invitations of this run
  sentToday,    \* history: connection requests sent on the local day
  probe,        \* history of the calls that a specification observes
  cookiesFile,  \* the file cookies.json
  jar,          \* the cookies of the browser
  live,         \* the sessions the site accepts
  lpc,          \* position of the process in Login; "idle" outside of it
  polls,        \* verifyLogin: the loop counter i
  currentURL,   \* page.MustInfo().URL of the page Login drives
  result,       \* what the last Login returned
  pageOk,       \* the page of the run answers element queries
  challenged,   \* history: this Login was shown a challenge
  sim           \* the call of a stealth function and what it produced

vars == <<now, offset, db, pc, mode, environ, cfg, dbOpen, browser, browsed,
          exitCode, todayCount, pageNum, newProfiles, profiles, cur, page,
          outcome, successCount, sentToday, probe, cookiesFile, jar, live,
          lpc, polls, currentURL, result, pageOk, challenged, sim>>

loginVars == <<cookiesFile, jar, live, lpc, polls, currentURL, result, pageOk,
               challenged>>

sideVars == <<loginVars, sim>>

runVars == <<mode, environ, cfg, dbOpen, browser, browsed>>

\* the counters runConnectMode keeps over its loop
RunTallies == <<successCount>>

stageVars == <<todayCount, pageNum, newProfiles, profiles, cur, page,
               outcome, successCount>>

NoFile == [exists |-> FALSE, data |-> <<>>]

NoSim == [fn |-> "none"]

\* no Login under way and no bundle on disk
LoginIdle ==
  /\ cookiesFile = NoFile
  /\ jar = {}
  /\ live = {}
  /\ lpc = "idle"
  /\ polls = 0
  /\ currentURL = ""
  /\ result = ""
  /\ pageOk = TRUE
  /\ challenged = FALSE

\* no Login under way, no bundle on disk, no stealth call
SideInit ==
  /\ LoginIdle
  /\ sim = NoSim

NoProbe ==
  [calls |-> 0, seen |-> {}, url |-> <<>>, added |-> FALSE, repeat |-> FALSE]

Modes == {"search", "connect", "demo", "login", "message", "bogus"}

T(a, b, c, d, e) == <<a, b, c, d, e>>

\* the .env files of the modelled runs; <<>> is an unset variable
Envs ==
  { [WorkStart |-> T("0", "9", ":", "0", "0"), WorkEnd |-> <<>>],
    [WorkStart |-> T("+", "9", ":", "0", "0"),
     WorkEnd |-> T("2", "1", ":", "0", "0")],
    [WorkStart |-> <<"9", ":", "0", "0">>,
     WorkEnd |-> T("2", "1", ":", "0", "0")],
    [WorkStart |-> T("0", "9", "-", "0", "0"),
     WorkEnd |-> T("2", "1", ":", "0", "0")],
    [WorkStart |-> T("0", "a", ":", "0", "0"),
     WorkEnd |-> T("2", "1", ":", "0", "0")],
    [WorkStart |-> T("0", "9", ":", "0", "0"),
     WorkEnd |-> T("2", "4", ":", "0", "0")],
    [WorkStart |-> T("0", "9", ":", "0", "0"),
     WorkEnd |-> T("2", "1", ":", "6", "0")],
    [WorkStart |-> <<>>,
     WorkEnd |-> T("2", "1", ":", "x", "0")] }

NoCfg == [err |-> TRUE, WorkStart |-> <<>>, WorkEnd |-> <<>>]

NoEnv == [WorkStart |-> <<>>, WorkEnd |-> <<>>]

NoPage == [kind |-> "none"]

NoExit == 0 - 1

Init ==
  /\ now = 540
  /\ offset \in Offsets
  /\ db = <<>>
  /\ pc = "off"
  /\ mode = ""
  /\ environ = NoEnv
  /\ cfg = NoCfg
  /\ dbOpen = FALSE
  /\ browser = FALSE
  /\ browsed = FALSE
  /\ exitCode = NoExit
  /\ todayCount = 0
  /\ pageNum = 0
  /\ newProfiles = <<>>
  /\ profiles = <<>>
  /\ cur = <<>>
  /\ page = NoPage
  /\ outcome = ""
  /\ successCount = 0
  /\ sentToday = 0
  /\ probe = NoProbe
  /\ SideInit

\* the process ends: os.Exit, log.Fatalf or the return of main
Exit(code) ==
  /\ pc' = "exited"
  /\ exitCode' = code

\* the process goes on to position p
Goto(p) ==
  /\ pc' = p
  /\ UNCHANGED exitCode

\* the ended process is gone: only the store and the clock outlive it
Reaped ==
  /\ pc = "exited"
  /\ pc' = "off"
  /\ exitCode' = NoExit
  /\ mode' = ""
  /\ environ' = NoEnv
  /\ cfg' = NoCfg
  /\ dbOpen' = FALSE
  /\ browser' = FALSE
  /\ browsed' = FALSE
  /\ todayCount' = 0
  /\ pageNum' = 0
  /\ newProfiles' = <<>>
  /\ profiles' = <<>>
  /\ cur' = <<>>
  /\ page' = NoPage
  /\ outcome' = ""
  /\ successCount' = 0
  /\ UNCHANGED <<now, offset, db, sentToday>>
  /\ UNCHANGED <<probe, sideVars>>

\* time passes between two runs; a run is short against the clock's step
Tick ==
  /\ pc = "off"
  /\ \E t \in Times :
       /\ t > now
       /\ \A u \in Times : u > now => t <= u
       /\ now' = t
       /\ sentToday' = IF LocalDay(t) = LocalDay(now) THEN sentToday ELSE 0
  /\ UNCHANGED <<offset, db, pc, runVars, exitCode, stageVars>>
  /\ UNCHANGED <<probe, sideVars>>

\* the operator starts the program with some .env file; main: config.Load
LoadConfig ==
  /\ pc = "off"
  /\ \E e \in Envs :
       /\ environ' = e
       /\ LET c == Load(e)
          IN IF c.err
             THEN /\ Exit(1)
                  /\ UNCHANGED cfg
             ELSE /\ cfg' = c
                  /\ Goto("hours")
  /\ UNCHANGED <<now, offset, db, mode, dbOpen, browser, browsed, stageVars,
                 sentToday>>
  /\ UNCHANGED <<probe, sideVars>>

\* main: guard.CheckWorkingHours
CheckHours_Ignore ==
  /\ pc = "hours"
  /\ Goto("initdb")
  /\ UNCHANGED <<now, offset, db, runVars, stageVars, sentToday>>
  /\ UNCHANGED <<probe, sideVars>>

CheckHours ==
  /\ pc = "hours"
  /\ IF CheckWorkingHours(cfg.WorkStart, cfg.WorkEnd, Weekday(now),
                          MinuteOfDay(now)) # "ok"
     THEN Exit(1)
     ELSE Goto("initdb")
  /\ UNCHANGED <<now, offset, db, runVars, stageVars, sentToday>>
  /\ UNCHANGED <<probe, sideVars>>

\* main: storage.InitDB
InitDB ==
  /\ pc = "initdb"
  /\ \E ok \in BOOLEAN :
       IF ok
       THEN /\ dbOpen' = TRUE
            /\ Goto("browser")
       ELSE /\ Exit(1)
            /\ UNCHANGED dbOpen
  /\ UNCHANGED <<now, offset, db, mode, environ, cfg, browser, browsed,
                 stageVars, sentToday>>
  /\ UNCHANGED <<probe, sideVars>>

\* main: browser.NewBrowser and browser.NewStealthPage
NewBrowser ==
  /\ pc = "browser"
  /\ \E ok \in BOOLEAN :
       IF ok
       THEN /\ browser' = TRUE
            /\ Goto("login")
       ELSE /\ Exit(1)
            /\ UNCHANGED browser
  /\ UNCHANGED <<now, offset, db, mode, environ, cfg, dbOpen, browsed,
                 stageVars, sentToday>>
  /\ UNCHANGED <<probe, sideVars>>

\* main with a failed login that ends the run as a completed one
Login_ExitZero ==
  /\ pc = "login"
  /\ browsed' = TRUE
  /\ \E ok \in BOOLEAN :
       IF ok THEN Goto("dispatch") ELSE Exit(0)
  /\ UNCHANGED <<now, offset, db, mode, environ, cfg, dbOpen, browser,
                 stageVars, sentToday>>
  /\ UNCHANGED <<probe, sideVars>>

\* main: linkedin.Login
Login ==
  /\ pc = "login"
  /\ browsed' = TRUE
  /\ \E ok \in BOOLEAN :
       IF ok THEN Goto("dispatch") ELSE Exit(1)
  /\ UNCHANGED <<now, offset, db, mode, environ, cfg, dbOpen, browser,
                 stageVars, sentToday>>
  /\ UNCHANGED <<probe, sideVars>>

\* main: switch strings.ToLower(*mode), on the -mode flag of the run
Dispatch ==
  /\ pc = "dispatch"
  /\ \E m \in Modes :
       /\ mode' = m
       /\ IF m \in {"search", "demo"} THEN Goto("runSearchMode")
          ELSE IF m = "connect" THEN Goto("runConnectMode")
          ELSE IF m = "message" THEN Goto("runMessageMode")
          ELSE IF m = "login" THEN Goto("stats")
          ELSE Exit(1)
  /\ UNCHANGED <<now, offset, db, environ, cfg, dbOpen, browser, browsed,
                 stageVars, sentToday>>
  /\ UNCHANGED <<probe, sideVars>>

\* a return of runSearchMode that ends the run in every mode
SearchReturn_Stop ==
  /\ Goto("stats")
  /\ pageNum' = 0

\* the return of runSearchMode: demo mode goes on with runConnectMode
SearchReturn ==
  /\ Goto(IF mode = "demo" THEN "runConnectMode" ELSE "stats")
  /\ pageNum' = 0

\* runSearchMode up to the first result page: the quota gate, then the
\* search bar and the People filter of SearchPeople
RunSearchMode_NoGate ==
  /\ pc = "runSearchMode"
  /\ todayCount' = GetTodayCount(db, now)
  /\ \E found \in BOOLEAN :
       IF found
       THEN /\ Goto("search")
            /\ pageNum' = 1
            /\ newProfiles' = <<>>
       ELSE /\ SearchReturn
            /\ UNCHANGED newProfiles
  /\ UNCHANGED <<now, offset, db, runVars, profiles, cur, page, outcome,
                 successCount, sentToday>>
  /\ UNCHANGED <<probe, sideVars>>

RunSearchMode ==
  /\ pc = "runSearchMode"
  /\ todayCount' = GetTodayCount(db, now)
  /\ IF todayCount' >= SearchLimit
     THEN /\ SearchReturn
          /\ UNCHANGED newProfiles
     ELSE \E found \in BOOLEAN :
            IF found
            THEN /\ Goto("search")
                 /\ pageNum' = 1
                 /\ newProfiles' = <<>>
            ELSE /\ SearchReturn
                 /\ UNCHANGED newProfiles
  /\ UNCHANGED <<now, offset, db, runVars, profiles, cur, page, outcome,
                 successCount, sentToday>>
  /\ UNCHANGED <<probe, sideVars>>

\* SearchPeople: one iteration of the page loop
SearchPage ==
  /\ pc = "search"
  /\ \E links \in ResultPages, scanned \in BOOLEAN, next \in BOOLEAN :
       LET r == IF scanned THEN ScanLinks(links, db, {}, newProfiles, now)
                ELSE [db |-> db, newProfiles |-> newProfiles]
       IN /\ db' = r.db
          /\ newProfiles' = r.newProfiles
          /\ IF pageNum < MaxPages /\ (next \/ ~scanned)
             THEN /\ pageNum' = pageNum + 1
                  /\ Goto("search")
             ELSE SearchReturn
  /\ UNCHANGED <<now, offset, runVars, todayCount, profiles, cur, page,
                 outcome, successCount, sentToday>>
  /\ UNCHANGED <<probe, sideVars>>

\* runConnectMode up to the loop: the quota gate and the batch
RunConnectMode_NoGate ==
  /\ pc = "runConnectMode"
  /\ newProfiles' = <<>>
  /\ successCount' = 0
  /\ LET batch == GetProfilesToInvite(db, InviteLimit)
     IN IF Len(batch) = 0
        THEN /\ Goto("stats")
             /\ UNCHANGED profiles
        ELSE /\ Goto("connect")
             /\ profiles' = batch
  /\ UNCHANGED <<now, offset, db, runVars, todayCount, pageNum, cur, page,
                 outcome, sentToday>>
  /\ UNCHANGED <<probe, sideVars>>

RunConnectMode ==
  /\ pc = "runConnectMode"
  /\ newProfiles' = <<>>
  /\ successCount' = 0
  /\ LET inviteCount == GetDailyInviteCount(db, now)
         remaining == InviteLimit - inviteCount
     IN IF remaining <= 0
        THEN /\ Goto("stats")
             /\ UNCHANGED profiles
        ELSE LET batch == GetProfilesToInvite(db, remaining)
             IN IF Len(batch) = 0
                THEN /\ Goto("stats")
                     /\ UNCHANGED profiles
                ELSE /\ Goto("connect")
                     /\ profiles' = batch
  /\ UNCHANGED <<now, offset, db, runVars, todayCount, pageNum, cur, page,
                 outcome, sentToday>>
  /\ UNCHANGED <<probe, sideVars>>

\* the switch of runConnectMode: the status to store, "" for none
ConnectStatus_Connected(status) ==
  CASE status = "clicked" -> "invited"
    [] status = "skipped_pending" -> "pending"
    [] status = "skipped_connected" -> "connected"
    [] status = "skipped_premium" -> "premium_only"
    [] OTHER -> ""

ConnectStatus(status) ==
  CASE status = "clicked" -> "invited"
    [] status = "skipped_pending" -> "pending"
    [] status = "skipped_connected" -> "already_connected"
    [] status = "skipped_premium" -> "premium_only"
    [] OTHER -> ""

\* runConnectMode: one iteration of the loop over the batch
ConnectVisit ==
  /\ pc = "connect"
  /\ profiles # <<>>
  /\ \E p \in ProfilePages :
       LET profileURL == Head(profiles)
           status == ConnectWithProfile(p)
           newStatus == ConnectStatus(status)
       IN /\ cur' = profileURL
          /\ page' = p
          /\ outcome' = status
          /\ db' = IF newStatus = "" THEN db
                   ELSE UpdateStatus(db, profileURL, newStatus,
                                     CurrentTimestamp(now, offset))
          /\ successCount' = IF status = "clicked" THEN successCount + 1
                             ELSE successCount
          /\ sentToday' = IF status = "clicked" THEN sentToday + 1
                          ELSE sentToday
  /\ profiles' = Tail(profiles)
  /\ Goto(IF Tail(profiles) = <<>> THEN "stats" ELSE "connect")
  /\ UNCHANGED <<now, offset, runVars, todayCount, pageNum, newProfiles>>
  /\ UNCHANGED <<probe, sideVars>>

\* runMessageMode and SendMessages up to the loop
RunMessageMode ==
  /\ pc = "runMessageMode"
  /\ LET batch == GetProfilesByStatus(db, "invited", MessageBatch)
     IN IF Len(batch) = 0
        THEN /\ Goto("stats")
             /\ UNCHANGED profiles
        ELSE /\ Goto("message")
             /\ profiles' = batch
  /\ UNCHANGED <<now, offset, db, runVars, todayCount, pageNum, newProfiles,
                 cur, page, outcome, successCount, sentToday>>
  /\ UNCHANGED <<probe, sideVars>>

\* SendMessages: one iteration of the loop over the batch.  The batch is
\* never longer than limit, so sentCount >= limit cannot stop the loop.
MessageStep ==
  /\ pc = "message"
  /\ profiles # <<>>
  /\ \E p \in MessagePages :
       LET profileURL == Head(profiles)
           newStatus == MessageVisit(p)
       IN /\ cur' = profileURL
          /\ page' = p
          /\ outcome' = newStatus
          /\ db' = IF newStatus = "" THEN db
                   ELSE UpdateStatus(db, profileURL, newStatus,
                                     CurrentTimestamp(now, offset))
  /\ profiles' = Tail(profiles)
  /\ Goto(IF Tail(profiles) = <<>> THEN "stats" ELSE "message")
  /\ UNCHANGED <<now, offset, runVars, todayCount, pageNum, newProfiles,
                 successCount, sentToday>>
  /\ UNCHANGED <<probe, sideVars>>

\* main: showFinalStatistics, then the return of main
Finish ==
  /\ pc = "stats"
  /\ Exit(0)
  /\ UNCHANGED <<now, offset, db, runVars, stageVars, sentToday>>
  /\ UNCHANGED <<probe, sideVars>>

Next ==
  \/ Tick
  \/ Reaped
  \/ LoadConfig
  \/ CheckHours
  \/ InitDB
  \/ NewBrowser
  \/ Login
  \/ Dispatch
  \/ RunSearchMode
  \/ SearchPage
  \/ RunConnectMode
  \/ ConnectVisit
  \/ RunMessageMode
  \/ MessageStep
  \/ Finish

Spec == Init /\ [][Next]_vars

\* ------------------------------------------------------------------------
\* The schedule check on its own: every minute of a week, several windows
\* ------------------------------------------------------------------------
\* the minutes of the first modelled week
WeekMinutes == 0..(7 * DayMinutes - 1)

\* configured windows, as minutes of the day: 09:00-21:00, 08:30-17:45,
\* 00:00-23:59, the overnight 22:00-06:00 and the empty 09:00-09:00
Windows ==
  { [start |-> 540, end |-> 1260], [start |-> 510, end |-> 1065],
    [start |-> 0, end |-> 1439], [start |-> 1320, end |-> 360],
    [start |-> 540, end |-> 540] }

\* the text HH:MM of minute m of the day
HHMM(m) ==
  <<DigitSeq[((m \div 60) \div 10) + 1], DigitSeq[((m \div 60) % 10) + 1],
    ":", DigitSeq[((m % 60) \div 10) + 1], DigitSeq[((m % 60) % 10) + 1]>>

WindowCfg(w) ==
  [err |-> FALSE, WorkStart |-> HHMM(w.start), WorkEnd |-> HHMM(w.end)]

\* a run that has loaded its configuration, at any minute of the week
GuardInit ==
  /\ now \in WeekMinutes
  /\ offset = 0
  /\ db = <<>>
  /\ pc = "hours"
  /\ mode = ""
  /\ \E w \in Windows :
       /\ cfg = WindowCfg(w)
       /\ environ = [WorkStart |-> HHMM(w.start), WorkEnd |-> HHMM(w.end)]
  /\ dbOpen = FALSE
  /\ browser = FALSE
  /\ browsed = FALSE
  /\ exitCode = NoExit
  /\ todayCount = 0
  /\ pageNum = 0
  /\ newProfiles = <<>>
  /\ profiles = <<>>
  /\ cur = <<>>
  /\ page = NoPage
  /\ outcome = ""
  /\ successCount = 0
  /\ sentToday = 0
  /\ probe = NoProbe
  /\ SideInit

GuardNext == CheckHours

SpecGuard == GuardInit /\ [][GuardNext]_vars

\* ------------------------------------------------------------------------
\* The store on its own: AddProfile and UpdateStatus called in any order
\* ------------------------------------------------------------------------
\* largest number of AddProfile calls of the store specification
MaxCalls == 3

StoreUrls == {<<"L", "a">>, <<"L", "b">>}

\* the statuses the stages pass to UpdateStatus
WrittenStatuses ==
  ({ConnectStatus(ConnectWithProfile(p)) : p \in ProfilePages}
     \cup {MessageVisit(p) : p \in MessagePages}) \ {""}

CallAddProfile ==
  /\ pc = "off"
  /\ probe.calls < MaxCalls
  /\ \E u \in StoreUrls :
       LET r == AddProfile(db, u, now)
       IN /\ db' = r.db
          /\ probe' = [calls |-> probe.calls + 1, seen |-> probe.seen \cup {u},
                       url |-> u, added |-> r.added, repeat |-> u \in probe.seen]
  /\ UNCHANGED <<now, offset, pc, runVars, exitCode, stageVars, sentToday>>
  /\ UNCHANGED sideVars

CallUpdateStatus ==
  /\ pc = "off"
  /\ \E u \in StoreUrls, newStatus \in WrittenStatuses :
       /\ HasUrl(db, u)
       /\ db' = UpdateStatus(db, u, newStatus, CurrentTimestamp(now, offset))
  /\ UNCHANGED <<now, offset, pc, runVars, exitCode, stageVars, sentToday,
                 probe, sideVars>>

StoreNext ==
  \/ CallAddProfile
  \/ CallUpdateStatus
  \/ Tick

SpecStore == Init /\ [][StoreNext]_vars

\* ------------------------------------------------------------------------
\* Properties
\* ------------------------------------------------------------------------
StatusOf(d, url) == d[CHOOSE i \in 1..Len(d) : d[i].url = url].status

ConnectVisited == DOMAIN page = ProfileSignals

\* C1: after a visit of the invitation stage whose page shows a Pending or
\* a Withdraw button together with a Message button, the outcome is
\* skipped_pending and the visited record's status is pending (never
\* already_connected).
C1_PendingBeatsConnected ==
  (ConnectVisited /\ (page.pending \/ page.withdraw) /\ page.message)
    => /\ outcome = "skipped_pending"
       /\ HasUrl(db, cur)
       /\ StatusOf(db, cur) = "pending"

C1_Witness ==
  /\ ConnectVisited
  /\ page.pending /\ page.message
  /\ outcome = "skipped_pending"
  /\ HasUrl(db, cur) /\ StatusOf(db, cur) = "pending"

C5_WorkingHours ==
  \A w \in Windows :
    (cfg = WindowCfg(w) /\ pc # "hours")
      => /\ pc \in {"initdb", "exited"}
         /\ (pc = "initdb")
              <=> /\ Weekday(now) \in 1..5
                  /\ w.start <= MinuteOfDay(now)
                  /\ MinuteOfDay(now) < w.end

C5_Witness ==
  /\ pc = "initdb"
  /\ cfg = WindowCfg([start |-> 540, end |-> 1260])
  /\ MinuteOfDay(now) = 1259
  /\ Weekday(now) = 5

HoursRefused ==
  /\ pc = "hours"
  /\ CheckWorkingHours(cfg.WorkStart, cfg.WorkEnd, Weekday(now),
                       MinuteOfDay(now)) # "ok"

\* C6: when the schedule check refuses, the run ends there with exit code
\* 1: the store has not been opened, no browser was started, nothing was
\* browsed, no mode was dispatched and no record was created or changed.
C6_RefusalEndsRun ==
  [][ HoursRefused
        => /\ pc' = "exited" /\ exitCode' = 1
           /\ db' = db
           /\ ~dbOpen' /\ ~browser' /\ ~browsed'
           /\ mode' = "" /\ page' = NoPage /\ pageNum' = 0 ]_vars

C6_Witness ==
  /\ pc = "exited" /\ exitCode = 1
  /\ ~cfg.err
  /\ CheckWorkingHours(cfg.WorkStart, cfg.WorkEnd, Weekday(now),
                       MinuteOfDay(now)) # "ok"
  /\ db # <<>>
  /\ ~dbOpen /\ ~browsed

\* a time of day written HH:MM: two digits, a colon, two digits, the hour
\* at most 23 and the minute at most 59
ValidHHMM(s) ==
  /\ Len(s) = 5
  /\ s[3] = ":"
  /\ {s[1], s[2], s[4], s[5]} \subseteq Digits
  /\ DigitsValue(<<s[1], s[2]>>) <= 23
  /\ DigitsValue(<<s[4], s[5]>>) <= 59

Malformed(e) ==
  \/ (e.WorkStart # <<>> /\ ~ValidHHMM(e.WorkStart))
  \/ (e.WorkEnd # <<>> /\ ~ValidHHMM(e.WorkEnd))

\* C7: a run whose configured WorkStart or WorkEnd is not a valid HH:MM
\* time has ended with exit code 1 at the loading of the configuration: no
\* Config was built from the value, the store was not opened and nothing
\* was browsed.
C7_MalformedAborts ==
  (pc # "off" /\ Malformed(environ))
    => /\ pc = "exited" /\ exitCode = 1
       /\ cfg = NoCfg
       /\ ~dbOpen /\ ~browser /\ ~browsed

RowsOf(d, url) == {i \in 1..Len(d) : d[i].url = url}

\* C8: an AddProfile call leaves exactly one record for its URL.  The first
\* call for a URL reports true and appends a found record stamped with the
\* clock; a later call for the same URL reports false and leaves the whole
\* table, hence the record's status, created_at and updated_at, as it was,
\* whatever status the record has by then.
C8_AddProfileTwice ==
  [][ (probe'.calls = probe.calls + 1)
        => /\ Cardinality(RowsOf(db', probe'.url)) = 1
           /\ IF probe'.url \in probe.seen
              THEN /\ ~probe'.added
                   /\ db' = db
              ELSE /\ probe'.added
                   /\ db' = Append(db, [url |-> probe'.url,
                                        status |-> "found",
                                        created_at |-> now,
                                        updated_at |-> now]) ]_vars

C8_Witness ==
  /\ probe.repeat
  /\ ~probe.added
  /\ Cardinality(RowsOf(db, probe.url)) = 1
  /\ StatusOf(db, probe.url) # "found"

\* strings.ToLower on the tokens of a link
ToLower(tok) ==
  CASE tok = "A" -> "a"
    [] tok = "B" -> "b"
    [] OTHER -> tok

\* the canonical form of a link: no query string, no trailing slash, lower
\* case
Canonical(urlStr) ==
  LET q == StripQuery(urlStr)
      n == IF q # <<>> /\ q[Len(q)] = "/" THEN SubSeq(q, 1, Len(q) - 1)
           ELSE q
  IN [i \in 1..Len(n) |-> ToLower(n[i])]

\* C9: no two records have the same canonical URL.
C9_OnePerCanonicalUrl ==
  \A i, j \in 1..Len(db) :
    Canonical(db[i].url) = Canonical(db[j].url) => i = j

StatusEnum ==
  {"found", "invited", "pending", "already_connected", "premium_only",
   "messaged"}

C11_UpdatedNotBeforeCreated ==
  /\ [](\A i \in 1..Len(db) : db[i].updated_at >= db[i].created_at)
  /\ [][\A i \in 1..Len(db) :
          i <= Len(db') /\ db'[i].created_at = db[i].created_at]_vars

\* a step that visits a target in the invitation stage
InviteVisit == pc = "connect" /\ cur' = Head(profiles)

\* a step that visits a target in the messaging stage
MessagingVisit == pc = "message" /\ cur' = Head(profiles)

\* C12: the invitation stage visits only records whose status is found,
\* and the visit leaves the record invited for clicked, pending for
\* skipped_pending, already_connected for skipped_connected, premium_only
\* for skipped_premium and found for failed; it never writes messaged.
C12_InviteTransitions ==
  [][ InviteVisit
        => /\ HasUrl(db, cur')
           /\ StatusOf(db, cur') = "found"
           /\ StatusOf(db', cur') =
                (CASE outcome' = "clicked" -> "invited"
                   [] outcome' = "skipped_pending" -> "pending"
                   [] outcome' = "skipped_connected" -> "already_connected"
                   [] outcome' = "skipped_premium" -> "premium_only"
                   [] outcome' = "failed" -> "found"
                   [] OTHER -> "none")
           /\ \A i \in 1..Len(db) :
                db'[i].status = "messaged" => db[i].status = "messaged" ]_vars

C12_Witness ==
  /\ ConnectVisited
  /\ outcome = "skipped_premium"
  /\ HasUrl(db, cur) /\ StatusOf(db, cur) = "premium_only"
  /\ \E i \in 1..Len(db) : db[i].status = "invited"

\* C13: the messaging stage visits only records whose status is invited
\* and leaves the visited record invited, messaged, pending or
\* premium_only; no step moves a record back to found, and a record
\* becomes messaged only from invited.
C13_MessageTransitions ==
  [][ /\ MessagingVisit
         => /\ HasUrl(db, cur')
            /\ StatusOf(db, cur') = "invited"
            /\ StatusOf(db', cur')
                 \in {"invited", "messaged", "pending", "premium_only"}
      /\ \A i \in 1..Len(db) :
           /\ i <= Len(db')
           /\ (db'[i].status = "found" => db[i].status = "found")
           /\ (db'[i].status = "messaged" /\ db[i].status # "messaged")
                => db[i].status = "invited" ]_vars

C13_Witness ==
  /\ DOMAIN page = MessageSignals
  /\ outcome = "messaged"
  /\ HasUrl(db, cur) /\ StatusOf(db, cur) = "messaged"
  /\ \E i \in 1..Len(db) : db[i].status = "found"

TerminalStatuses == {"premium_only", "already_connected", "messaged"}

\* C14: a record whose status is premium_only, already_connected or
\* messaged is never visited by a stage again, and no step of any run
\* changes its status or its updated_at.
C14_TerminalStays ==
  [][ /\ \A i \in 1..Len(db) :
           db[i].status \in TerminalStatuses
             => (i <= Len(db') /\ db'[i] = db[i])
      /\ (InviteVisit \/ MessagingVisit)
           => (HasUrl(db, cur') /\ StatusOf(db, cur') \notin TerminalStatuses)
    ]_vars

C14_Witness ==
  /\ pc = "search"
  /\ newProfiles # <<>>
  /\ \E i \in 1..Len(db) : db[i].status \in TerminalStatuses

\* C15: a visit of the invitation stage that ends in failed leaves the
\* record's status and updated_at as they were, is counted by a counter of
\* the run, lets the run go on with the rest of the batch, and leaves the
\* record among those the next run can select.
C15_FailedVisit ==
  [][ (InviteVisit /\ outcome' = "failed")
        => /\ db' = db
           /\ RunTallies' # RunTallies
           /\ pc' = (IF Tail(profiles) = <<>> THEN "stats" ELSE "connect")
           /\ \E k \in 1..Len(db') :
                GetProfilesToInvite(db', k)[k] = cur' ]_vars

\* C16: a visit of the invitation stage makes the record invited only when
\* the Connect control was clicked and the Send control of the dialog was
\* found.
C16_InvitedOnlySent ==
  [][ (InviteVisit /\ StatusOf(db', cur') = "invited")
        => /\ page'.connect \/ (page'.more /\ page'.menuConnect)
           /\ page'.send ]_vars

\* C17: a visit of the messaging stage makes the record messaged only when
\* the Message control was found, the chat box opened and the Send control
\* was found; every other visit does not set messaged.
C17_MessagedOnlySent ==
  [][ MessagingVisit
        => (StatusOf(db', cur') = "messaged"
              <=> (page'.message /\ ~page'.lock /\ page'.chat /\ page'.send))
    ]_vars

C17_Witness ==
  /\ DOMAIN page = MessageSignals
  /\ page.message /\ page.chat /\ page.send /\ ~page.lock
  /\ HasUrl(db, cur) /\ StatusOf(db, cur) = "messaged"

\* C18 as stated: a messaging visit that finds the Message control locked,
\* or that gets the Premium popup instead of the chat box, makes the
\* record premium_only.
C18_GatedIsPremium ==
  [][ (MessagingVisit /\ page'.message
         /\ (page'.lock \/ (~page'.chat /\ page'.popup)))
        => StatusOf(db', cur') = "premium_only" ]_vars

\* C18 as amended: a locked Message control makes the record premium_only;
\* the Premium popup in place of the chat box, the control not being
\* locked, makes it pending.
C18_LockPremiumPopupPending ==
  [][ (MessagingVisit /\ page'.message)
        => /\ page'.lock => StatusOf(db', cur') = "premium_only"
           /\ (~page'.lock /\ ~page'.chat /\ page'.popup)
                => StatusOf(db', cur') = "pending" ]_vars

C18_Witness ==
  /\ DOMAIN page = MessageSignals
  /\ page.message /\ page.popup /\ ~page.lock /\ ~page.chat
  /\ HasUrl(db, cur) /\ StatusOf(db, cur) = "pending"

\* ------------------------------------------------------------------------
\* Repeated runs of one stage over a queue of records, the runs reaching
\* the stage every time
\* ------------------------------------------------------------------------
Slugs == <<"a", "b", "c", "d", "e", "f", "g", "h", "i", "j", "k", "l">>

ProfileUrl(i) == <<"L", Slugs[i]>>

\* a clock reading inside the working hours of day 0, after the records
\* of the queue were written
QueueNow == 600

\* one record more than a batch of the invitation stage can hold
InviteQueueLen == InviteLimit + 1

\* one record more than a batch of the messaging stage can hold
MessageQueueLen == MessageBatch + 1

\* n records discovered one after the other and not yet visited
FoundQueue(n) ==
  [i \in 1..n |-> [url |-> ProfileUrl(i), status |-> "found",
                   created_at |-> 540 + i, updated_at |-> 540 + i]]

\* n records discovered together and invited one after the other
InvitedQueue(n, off) ==
  [i \in 1..n |-> [url |-> ProfileUrl(i), status |-> "invited",
                   created_at |-> 540,
                   updated_at |-> CurrentTimestamp(540 + i, off)]]

\* no process running, the table holding d
RunIdle(d) ==
  /\ now = QueueNow
  /\ db = d
  /\ pc = "off"
  /\ mode = ""
  /\ environ = NoEnv
  /\ cfg = NoCfg
  /\ dbOpen = FALSE
  /\ browser = FALSE
  /\ browsed = FALSE
  /\ exitCode = NoExit
  /\ todayCount = 0
  /\ pageNum = 0
  /\ newProfiles = <<>>
  /\ profiles = <<>>
  /\ cur = <<>>
  /\ page = NoPage
  /\ outcome = ""
  /\ successCount = 0
  /\ sentToday = 0
  /\ probe = NoProbe

QueueInit(d) ==
  /\ RunIdle(d)
  /\ SideInit

\* the start of a run that reaches the mode switch
LoadConfigOk == LoadConfig /\ pc' = "hours"

InitDBOk == InitDB /\ pc' = "browser"

NewBrowserOk == NewBrowser /\ pc' = "login"

LoginOk == Login /\ pc' = "dispatch"

DispatchConnect == Dispatch /\ mode' = "connect"

DispatchMessage == Dispatch /\ mode' = "message"

InviteInit ==
  /\ offset \in Offsets
  /\ \E n \in 1..InviteQueueLen : QueueInit(FoundQueue(n))

InviteNext ==
  \/ Reaped
  \/ LoadConfigOk
  \/ CheckHours
  \/ InitDBOk
  \/ NewBrowserOk
  \/ LoginOk
  \/ DispatchConnect
  \/ RunConnectMode
  \/ ConnectVisit
  \/ Finish

\* the operator keeps starting runs and every started step completes
SpecInvite == InviteInit /\ [][InviteNext]_vars /\ WF_vars(InviteNext)

\* the page of a target that has not answered: no Message control and no
\* Pending signal, so the visit leaves the record as it is
QuietPages == { Shows(MessageSignals, {}) }

MessageStepQuiet == MessageStep /\ page' \in QuietPages

MessageInit ==
  /\ offset \in Offsets
  /\ \E n \in 1..MessageQueueLen : QueueInit(InvitedQueue(n, offset))

MessageNext ==
  \/ Reaped
  \/ LoadConfigOk
  \/ CheckHours
  \/ InitDBOk
  \/ NewBrowserOk
  \/ LoginOk
  \/ DispatchMessage
  \/ RunMessageMode
  \/ MessageStepQuiet
  \/ Finish

SpecMessage == MessageInit /\ [][MessageNext]_vars /\ WF_vars(MessageNext)

MessageVisited == DOMAIN page = MessageSignals

\* C19: with a run after the other and quota left at every run, every
\* record that is found is eventually visited by the invitation stage.
C19_NoInviteStarvation ==
  [](GetDailyInviteCount(db, now) < InviteLimit)
    => \A i \in 1..InviteQueueLen :
         (HasUrl(db, ProfileUrl(i)) /\ StatusOf(db, ProfileUrl(i)) = "found")
           ~> (ConnectVisited /\ cur = ProfileUrl(i))

\* C20: with a messaging run after the other, every record that is
\* invited is eventually visited by the messaging stage.
C20_NoMessageStarvation ==
  \A i \in 1..MessageQueueLen :
    (HasUrl(db, ProfileUrl(i)) /\ StatusOf(db, ProfileUrl(i)) = "invited")
      ~> (MessageVisited /\ cur = ProfileUrl(i))

\* ------------------------------------------------------------------------
\* internal/linkedin: Login, loadCookies, saveCookies, verifyLogin
\* ------------------------------------------------------------------------
\* largest number of sessions the site issues
MaxSessions == 2

\* verifyLogin: for i := 0; i < 15; i++
VerifyPolls == 15

mainVars == <<now, offset, db, pc, runVars, exitCode, stageVars, sentToday,
              probe>>

Sessions == 1..MaxSessions

\* the brackets of a JSON array, as tokens of the file's text
Open == <<"[", 0>>

Close == <<"]", 0>>

\* the cookies of session g, as browser.GetCookies returns them
Bundle(g) == << <<"li_at", g>>, <<"JSESSIONID", g>> >>

\* json.MarshalIndent of a slice of cookies, token by token
MarshalIndent(cookies) == <<Open>> \o cookies \o <<Close>>

\* json.NewDecoder(file).Decode(&cookies): the first JSON value of the
\* text; what follows it is not read
Decode(data) ==
  LET closing == {k \in 1..Len(data) : data[k] = Close}
  IN IF data = <<>> \/ Head(data) # Open \/ closing = {}
     THEN [err |-> TRUE, cookies |-> <<>>]
     ELSE LET k == CHOOSE c \in closing : \A o \in closing : c <= o
          IN IF \E i \in 2..(k - 1) : data[i] = Open
             THEN [err |-> TRUE, cookies |-> <<>>]
             ELSE [err |-> FALSE, cookies |-> SubSeq(data, 2, k - 1)]

\* the session a slice of cookies belongs to, 0 for none
SessionOf(cookies) == IF cookies = <<>> THEN 0 ELSE cookies[1][2]

\* the sessions a file, the browser or the site still refers to
Referenced ==
  live \cup {SessionOf(jar)}
       \cup {cookiesFile.data[i][2] :
               i \in {k \in 1..Len(cookiesFile.data) :
                        cookiesFile.data[k] \notin {Open, Close}}}

Return(r) ==
  /\ lpc' = "idle"
  /\ result' = r

\* main calls linkedin.Login with the browser and page it has just made
StartLogin ==
  /\ lpc = "idle"
  /\ lpc' = "loadCookies"
  /\ jar' = <<>>
  /\ polls' = 0
  /\ currentURL' = ""
  /\ result' = ""
  /\ pageOk' = TRUE
  /\ challenged' = FALSE
  /\ UNCHANGED <<cookiesFile, live, sim, mainVars>>

\* loadCookies, which applies the cookies of a file it can decode only in
\* part
LoadCookies_Partial ==
  /\ lpc = "loadCookies"
  /\ LET inner == SelectSeq(cookiesFile.data, LAMBDA c : c \notin {Open, Close})
     IN IF cookiesFile.exists /\ inner # <<>>
        THEN /\ jar' = inner
             /\ lpc' = "probe"
        ELSE /\ lpc' = "manual"
             /\ UNCHANGED jar
  /\ UNCHANGED <<cookiesFile, live, polls, currentURL, result, pageOk,
                 challenged, sim, mainVars>>

\* Login: if err := loadCookies(browser); err == nil
LoadCookies ==
  /\ lpc = "loadCookies"
  /\ IF ~cookiesFile.exists \/ Decode(cookiesFile.data).err
     THEN /\ lpc' = "manual"
          /\ UNCHANGED jar
     ELSE \E ok \in BOOLEAN :
            IF ok
            THEN /\ jar' = Decode(cookiesFile.data).cookies
                 /\ lpc' = "probe"
            ELSE /\ lpc' = "manual"
                 /\ UNCHANGED jar
  /\ UNCHANGED <<cookiesFile, live, polls, currentURL, result, pageOk,
                 challenged, sim, mainVars>>

\* Login: the navigation to /feed/, the sleep, and currentURL
ProbeFeed ==
  /\ lpc = "probe"
  /\ currentURL' \in (IF SessionOf(jar) \in live THEN {"feed", "other"}
                      ELSE {"login", "other"})
  /\ lpc' = "check"
  /\ UNCHANGED <<cookiesFile, jar, live, polls, result, pageOk, challenged,
                 sim, mainVars>>

\* the check of currentURL with verifyLogin on every URL but the feed
FailFast_Poll ==
  /\ lpc = "check"
  /\ IF currentURL = "feed"
     THEN /\ Return("nil")
          /\ UNCHANGED polls
     ELSE /\ lpc' = "verifyCookie"
          /\ polls' = 0
          /\ UNCHANGED result
  /\ UNCHANGED <<cookiesFile, jar, live, currentURL, pageOk, challenged, sim,
                 mainVars>>

\* Login: the check of currentURL
FailFast ==
  /\ lpc = "check"
  /\ IF currentURL = "feed"
     THEN /\ Return("nil")
          /\ UNCHANGED polls
     ELSE IF currentURL = "login"
     THEN /\ lpc' = "manual"
          /\ UNCHANGED <<polls, result>>
     ELSE /\ lpc' = "verifyCookie"
          /\ polls' = 0
          /\ UNCHANGED result
  /\ UNCHANGED <<cookiesFile, jar, live, currentURL, pageOk, challenged, sim,
                 mainVars>>

\* the page comes to show the feed while verifyLogin waits on the cookie
\* path
FeedArrives ==
  /\ lpc = "verifyCookie"
  /\ currentURL = "other"
  /\ SessionOf(jar) \in live
  /\ currentURL' = "feed"
  /\ UNCHANGED <<cookiesFile, jar, live, lpc, polls, result, pageOk,
                 challenged, sim, mainVars>>

\* verifyLogin on the cookie path.  page.Element has no timeout: it
\* returns when #global-nav is there, or with an error when the page does
\* not answer, and only the error leads to the sleep and the next i.
VerifyCookie ==
  /\ lpc = "verifyCookie"
  /\ IF polls < VerifyPolls
     THEN IF currentURL = "feed"
          THEN /\ Return("nil")
               /\ UNCHANGED polls
          ELSE /\ ~pageOk
               /\ polls' = polls + 1
               /\ UNCHANGED <<lpc, result>>
     ELSE /\ lpc' = "manual"
          /\ UNCHANGED <<polls, result>>
  /\ UNCHANGED <<cookiesFile, jar, live, currentURL, pageOk, challenged, sim,
                 mainVars>>

\* Login: the manual login up to the click on Sign in.  The elements of
\* the form are waited for; the query fails when the page does not answer.
ManualLogin ==
  /\ lpc = "manual"
  /\ IF ~pageOk
     THEN /\ jar' = <<>>
          /\ Return("error")
          /\ UNCHANGED <<live, polls, currentURL, challenged>>
     ELSE /\ lpc' = "verifyManual"
          /\ polls' = 0
          /\ UNCHANGED result
          /\ \/ /\ currentURL' = "login"
                /\ jar' = <<>>
                /\ UNCHANGED <<live, challenged>>
             \/ /\ currentURL' = "checkpoint"
                /\ jar' = <<>>
                /\ challenged' = TRUE
                /\ UNCHANGED live
             \/ \E g \in Sessions \ Referenced :
                  /\ currentURL' = "feed"
                  /\ jar' = Bundle(g)
                  /\ live' = live \cup {g}
                  /\ UNCHANGED challenged
  /\ UNCHANGED <<cookiesFile, pageOk, sim, mainVars>>

\* the person at the browser resolves the challenge
ResolveChallenge ==
  /\ lpc = "verifyManual"
  /\ currentURL = "checkpoint"
  /\ \E g \in Sessions \ Referenced :
       /\ currentURL' = "feed"
       /\ jar' = Bundle(g)
       /\ live' = live \cup {g}
  /\ UNCHANGED <<cookiesFile, lpc, polls, result, pageOk, challenged, sim,
                 mainVars>>

\* verifyLogin whose element query returns at once when #global-nav is
\* not there
VerifyManual_NoWait ==
  /\ lpc = "verifyManual"
  /\ IF polls < VerifyPolls
     THEN IF currentURL = "feed"
          THEN /\ lpc' = "save"
               /\ UNCHANGED <<polls, result>>
          ELSE /\ polls' = polls + 1
               /\ UNCHANGED <<lpc, result>>
     ELSE /\ Return("error")
          /\ UNCHANGED polls
  /\ UNCHANGED <<cookiesFile, jar, live, currentURL, pageOk, challenged, sim,
                 mainVars>>

\* verifyLogin on the manual path, as on the cookie path; false makes
\* Login return its error
VerifyManual ==
  /\ lpc = "verifyManual"
  /\ IF polls < VerifyPolls
     THEN IF currentURL = "feed"
          THEN /\ lpc' = "save"
               /\ UNCHANGED <<polls, result>>
          ELSE /\ ~pageOk
               /\ polls' = polls + 1
               /\ UNCHANGED <<lpc, result>>
     ELSE /\ Return("error")
          /\ UNCHANGED polls
  /\ UNCHANGED <<cookiesFile, jar, live, currentURL, pageOk, challenged, sim,
                 mainVars>>

\* saveCookies up to the opening of the file by os.WriteFile, which
\* truncates it; Login drops the error of saveCookies
SaveCookies ==
  /\ lpc = "save"
  /\ \E ok \in BOOLEAN :
       IF ok
       THEN /\ cookiesFile' = [exists |-> TRUE, data |-> <<>>]
            /\ lpc' = "write"
            /\ UNCHANGED result
       ELSE /\ Return("nil")
            /\ UNCHANGED cookiesFile
  /\ UNCHANGED <<jar, live, polls, currentURL, pageOk, challenged, sim,
                 mainVars>>

\* os.WriteFile: the next part of the text reaches the file, or the write
\* fails; Login returns nil after either
WriteFile ==
  /\ lpc = "write"
  /\ LET data == MarshalIndent(jar)
         n == Len(cookiesFile.data)
     IN IF n = Len(data)
        THEN /\ Return("nil")
             /\ UNCHANGED cookiesFile
        ELSE \/ /\ cookiesFile' = [cookiesFile EXCEPT
                                     !.data = Append(@, data[n + 1])]
                /\ UNCHANGED <<lpc, result>>
             \/ /\ Return("nil")
                /\ UNCHANGED cookiesFile
  /\ UNCHANGED <<jar, live, polls, currentURL, pageOk, challenged, sim,
                 mainVars>>

\* the run is interrupted: the process is killed or the machine stops
Interrupt ==
  /\ lpc # "idle"
  /\ Return("killed")
  /\ UNCHANGED <<cookiesFile, jar, live, polls, currentURL, pageOk,
                 challenged, sim, mainVars>>

\* the page stops answering element queries
PageFails ==
  /\ lpc # "idle"
  /\ pageOk
  /\ pageOk' = FALSE
  /\ UNCHANGED <<cookiesFile, jar, live, lpc, polls, currentURL, result,
                 challenged, sim, mainVars>>

\* the site ends a session
Expire ==
  /\ \E g \in live : live' = live \ {g}
  /\ UNCHANGED <<cookiesFile, jar, lpc, polls, currentURL, result, pageOk,
                 challenged, sim, mainVars>>

LoginInit ==
  /\ offset = 0
  /\ QueueInit(<<>>)

LoginNext ==
  \/ StartLogin
  \/ LoadCookies
  \/ ProbeFeed
  \/ FailFast
  \/ FeedArrives
  \/ VerifyCookie
  \/ ManualLogin
  \/ ResolveChallenge
  \/ VerifyManual
  \/ SaveCookies
  \/ WriteFile
  \/ Interrupt
  \/ PageFails
  \/ Expire

SpecLogin == LoginInit /\ [][LoginNext]_vars

\* a step of Login itself, not the end of the process under it
LoginStep == lpc' # lpc /\ result' # "killed"

Unloadable == ~cookiesFile.exists \/ Decode(cookiesFile.data).err

CompleteBundle(f) ==
  f.exists /\ \E g \in Sessions : f.data = MarshalIndent(Bundle(g))

\* C21: when the URL read after the cookie probe is the login page, the
\* next step of Login is the manual path, and verifyLogin's loop has not
\* run.
C21_RedirectSkipsPolling ==
  [][ (lpc = "check" /\ currentURL = "login" /\ LoginStep)
        => /\ lpc' = "manual"
           /\ polls' = 0
           /\ polls = 0 ]_vars

C21_Witness ==
  /\ lpc = "manual"
  /\ currentURL = "login"
  /\ jar # <<>>
  /\ polls = 0

\* C22: with the bundle file missing or not decodable, loadCookies applies
\* no cookie, the feed is not probed, and Login goes on with the manual
\* path.
C22_UnloadableBundleIsAbsent ==
  [][ (lpc = "loadCookies" /\ Unloadable /\ LoginStep)
        => /\ lpc' = "manual"
           /\ jar' = <<>>
           /\ currentURL' = "" ]_vars

C22_Witness ==
  /\ lpc = "manual"
  /\ currentURL = ""
  /\ cookiesFile.exists
  /\ \E i \in 1..Len(cookiesFile.data) : cookiesFile.data[i] \notin {Open, Close}
  /\ Decode(cookiesFile.data).err

\* C23: whenever no Login is under way, interrupted or not, the bundle
\* file is absent or holds one complete bundle.
C23_AtomicSave == lpc = "idle" => (~cookiesFile.exists \/ CompleteBundle(cookiesFile))

\* C24: when Login returns success from the manual path, the file holds
\* the cookies of the browser.
C24_SavedBeforeSuccess ==
  [][ (lpc \in {"save", "write"} /\ result' = "nil")
        => /\ cookiesFile'.exists
           /\ cookiesFile'.data = MarshalIndent(jar) ]_vars

StagePositions ==
  {"runSearchMode", "search", "runConnectMode", "connect", "runMessageMode",
   "message"}

\* C26: a run whose Login fails ends with a non-zero code at that point
\* and the table as it was; the stages are entered from the mode switch
\* only, which follows a successful Login; the table changes inside the
\* stages only; a run that reaches the statistics ends with code 0.
C26_LoginFailureIsFatal ==
  [][ /\ pc = "login" => (pc' \in {"dispatch", "exited"} /\ db' = db)
      /\ (pc = "login" /\ pc' = "exited") => exitCode' # 0
      /\ (pc' = "dispatch" /\ pc # "dispatch") => pc = "login"
      /\ (pc' \in StagePositions /\ pc \notin StagePositions)
           => pc = "dispatch"
      /\ db' # db => pc \in StagePositions
      /\ pc = "stats" => (pc' = "exited" /\ exitCode' = 0) ]_vars

C26_Witness ==
  /\ pc = "exited"
  /\ exitCode # 0
  /\ browsed
  /\ mode = ""
  /\ db # <<>>

\* C27: in demo mode a discovery stage that finds its quota used up hands
\* over to the invitation stage in the same run; the messaging stage
\* visits its batch whatever the day's discovery and invitation counts.
C27_ExhaustedQuotaNotFatal ==
  [][ /\ (pc = "runSearchMode" /\ mode = "demo"
            /\ GetTodayCount(db, now) >= SearchLimit)
         => (pc' = "runConnectMode" /\ db' = db)
      /\ (pc = "runMessageMode"
            /\ GetProfilesByStatus(db, "invited", MessageBatch) # <<>>)
         => pc' = "message" ]_vars

C27_Witness ==
  /\ pc = "runConnectMode"
  /\ mode = "demo"
  /\ todayCount >= SearchLimit
  /\ GetTodayCount(db, now) >= SearchLimit

C27_MessagingWitness ==
  /\ pc = "message"
  /\ GetTodayCount(db, now) >= SearchLimit
  /\ GetDailyInviteCount(db, now) >= InviteLimit

\* ------------------------------------------------------------------------
\* internal/stealth and internal/linkedin: the functions that draw on
\* math/rand, each with its draws as inputs
\* ------------------------------------------------------------------------
StealthInit(calls) ==
  /\ offset = 0
  /\ RunIdle(<<>>)
  /\ LoginIdle
  /\ sim \in calls

\* the least and the largest value of rand.Intn(n)
IntnEnds(n) == {0, n - 1}

\* ---- humanTypeWithMistakes ----
\* longest text typed
MaxText == 4

Letters == {"a", "q"}

Texts == UNION { [1..n -> Letters] : n \in 0..MaxText }

\* wrongChars
WrongChars ==
  <<"q", "w", "e", "r", "t", "y", "u", "i", "o", "p", "a", "s", "d", "f",
    "g", "h", "j", "k", "l", "z", "x", "c", "v", "b", "n", "m">>

Backspace == "Backspace"

\* what a sequence of keys leaves in an empty field: element.MustInput
\* appends its character, input.Backspace removes the last one
RECURSIVE Typed(_)
Typed(keys) ==
  IF keys = <<>> THEN <<>>
  ELSE LET before == Typed(SubSeq(keys, 1, Len(keys) - 1))
           key == keys[Len(keys)]
       IN IF key = Backspace
          THEN IF before = <<>> THEN <<>>
               ELSE SubSeq(before, 1, Len(before) - 1)
          ELSE Append(before, key)

\* the keys of the typo branch for typoPos and the index of typoChar
TypoKeys(text, typoPos, c) ==
  SubSeq(text, 1, typoPos) \o <<WrongChars[c + 1], Backspace>>
    \o SubSeq(text, typoPos + 1, Len(text))

\* humanTypeWithMistakes (src/unnamed/part_004); rand.Intn(n) panics when
\* n <= 0
HumanTypeWithMistakes ==
  /\ sim.fn = "humanTypeWithMistakes"
  /\ ~sim.done
  /\ \E typo \in BOOLEAN :
       IF typo
       THEN IF Len(sim.text) - 1 <= 0
            THEN sim' = [sim EXCEPT !.done = TRUE, !.typo = TRUE,
                                    !.panicked = TRUE]
            ELSE \E typoPos \in 0..(Len(sim.text) - 2),
                    c \in IntnEnds(Len(WrongChars)) :
                   sim' = [sim EXCEPT !.done = TRUE, !.typo = TRUE,
                                      !.typoPos = typoPos,
                                      !.typoChar = WrongChars[c + 1],
                                      !.field = Typed(TypoKeys(sim.text,
                                                               typoPos, c))]
       ELSE sim' = [sim EXCEPT !.done = TRUE, !.field = Typed(sim.text)]
  /\ UNCHANGED <<mainVars, loginVars>>

\* the same function in its later revision: no typo branch
HumanTypePlain ==
  /\ sim.fn = "humanTypePlain"
  /\ ~sim.done
  /\ sim' = [sim EXCEPT !.done = TRUE, !.field = Typed(sim.text)]
  /\ UNCHANGED <<mainVars, loginVars>>

TypingCalls ==
  { [fn |-> f, text |-> t, field |-> <<>>, typo |-> FALSE, typoPos |-> 0,
     typoChar |-> "", panicked |-> FALSE, done |-> FALSE] :
      f \in {"humanTypeWithMistakes", "humanTypePlain"}, t \in Texts }

TypingInit == StealthInit(TypingCalls)

TypingNext ==
  \/ HumanTypeWithMistakes
  \/ HumanTypePlain

SpecTyping == TypingInit /\ [][TypingNext]_vars

\* C28: every call of humanTypeWithMistakes ends without a panic and
\* leaves its text in the field.
C28_TypingRoundTrip ==
  (sim.fn = "humanTypeWithMistakes" /\ sim.done)
    => (~sim.panicked /\ sim.field = sim.text)

\* ---- generateInertiaDelays ----
\* largest numSteps
MaxSteps == 24

Clamp(lo, x, hi) == IF x < lo THEN lo ELSE IF x > hi THEN hi ELSE x

\* generateInertiaDelays without its two limits
generateInertiaDelays_Unlimited(numSteps, draws) ==
  LET accelPhase == numSteps \div 4
      decelPhase == numSteps \div 4
      constPhase == numSteps - accelPhase - decelPhase
  IN [idx \in 1..numSteps |->
        IF idx <= accelPhase THEN 80 - (idx - 1) * 15
        ELSE IF idx <= accelPhase + constPhase
        THEN 20 + draws[idx - accelPhase]
        ELSE 20 + (idx - accelPhase - constPhase - 1) * 15]

\* generateInertiaDelays, the draws of its constant phase given
generateInertiaDelays(numSteps, draws) ==
  LET accelPhase == numSteps \div 4
      decelPhase == numSteps \div 4
      constPhase == numSteps - accelPhase - decelPhase
  IN [idx \in 1..numSteps |->
        IF idx <= accelPhase
        THEN LET d == 80 - (idx - 1) * 15 IN IF d < 20 THEN 20 ELSE d
        ELSE IF idx <= accelPhase + constPhase
        THEN 20 + draws[idx - accelPhase]
        ELSE LET d == 20 + (idx - accelPhase - constPhase - 1) * 15
             IN IF d > 80 THEN 80 ELSE d]

\* NaturalScroll: delays := generateInertiaDelays(numSteps)
CallInertia ==
  /\ sim.fn = "generateInertiaDelays"
  /\ ~sim.done
  /\ LET constPhase == sim.numSteps - 2 * (sim.numSteps \div 4)
     IN \E draws \in [1..constPhase -> IntnEnds(10)] :
          sim' = [sim EXCEPT !.done = TRUE, !.draws = draws,
                    !.delays = generateInertiaDelays(sim.numSteps, draws)]
  /\ UNCHANGED <<mainVars, loginVars>>

InertiaCalls ==
  { [fn |-> "generateInertiaDelays", numSteps |-> n, draws |-> <<>>,
     delays |-> <<>>, done |-> FALSE] : n \in 1..MaxSteps }

InertiaInit == StealthInit(InertiaCalls)

InertiaNext == CallInertia

SpecInertia == InertiaInit /\ [][InertiaNext]_vars

\* C29: generateInertiaDelays(N) returns N delays: floor(N/4) falling
\* ones, N - 2*floor(N/4) drawn ones and floor(N/4) rising ones, each
\* within 20..80.
C29_InertiaDelays ==
  (sim.fn = "generateInertiaDelays" /\ sim.done)
    => LET N == sim.numSteps
           a == N \div 4
           c == N - 2 * (N \div 4)
       IN /\ Len(sim.delays) = N
          /\ a + c + a = N
          /\ \A i \in 1..N : sim.delays[i] >= 20 /\ sim.delays[i] <= 80
          /\ \A i \in 1..a : sim.delays[i] = Clamp(20, 80 - (i - 1) * 15, 80)
          /\ \A i \in 1..c : sim.delays[a + i] = 20 + sim.draws[i]
          /\ \A i \in 1..a :
               sim.delays[a + c + i] = Clamp(20, 20 + (i - 1) * 15, 80)

C29_Witness ==
  /\ sim.fn = "generateInertiaDelays"
  /\ sim.done
  /\ sim.numSteps = MaxSteps
  /\ sim.delays[sim.numSteps \div 4] = 20
  /\ sim.delays[sim.numSteps] = 80

\* ---- GenerateBezierPath ----
\* steps := 50
Steps == 50

\* coordinates are kept as integers, in units of 1 / Scale
Scale == 2 * (Steps - 1) * (Steps - 1)

Coordinates == {0, 7, 1000}

\* rand.Float64()*100 - 50 lies in [-50, 50)
ControlOffsets == {0 - 50, 0, 49}

\* rand.Float64()*2 - 1 lies in [-1, 1): the draws of one axis along the
\* path, in units of 1 / Scale
Noises ==
  { [i \in 1..Steps |-> 0 - Scale],
    [i \in 1..Steps |-> Scale - 1],
    [i \in 1..Steps |-> IF i % 2 = 1 THEN Scale - 1 ELSE 0 - Scale],
    [i \in 1..Steps |-> 0] }

\* one axis of the curve with t := i / steps
Bezier_OverSteps(from, to, control2, noise) ==
  [k \in 1..Steps |->
     LET i == k - 1
         n == Steps
     IN (((2 * (n - i) * (n - i) * from + 2 * (n - i) * i * control2
             + 2 * i * i * to) * ((Steps - 1) * (Steps - 1))) \div (n * n))
        + noise[k]]

\* one axis of GenerateBezierPath: t := i / (steps - 1), control2 twice
\* the control coordinate
Bezier(from, to, control2, noise) ==
  [k \in 1..Steps |->
     LET i == k - 1
         n == Steps - 1
     IN 2 * (n - i) * (n - i) * from + 2 * (n - i) * i * control2
          + 2 * i * i * to + noise[k]]

\* MoveMouseSmoothly: path := GenerateBezierPath(...)
CallBezier ==
  /\ sim.fn = "GenerateBezierPath"
  /\ ~sim.done
  /\ \E ox \in ControlOffsets, oy \in ControlOffsets,
        nx \in Noises, ny \in Noises :
       sim' = [sim EXCEPT
                 !.done = TRUE,
                 !.control = <<ox, oy>>,
                 !.pathX = Bezier(sim.fromX, sim.toX,
                                  sim.fromX + sim.toX + 2 * ox, nx),
                 !.pathY = Bezier(sim.fromY, sim.toY,
                                  sim.fromY + sim.toY + 2 * oy, ny)]
  /\ UNCHANGED <<mainVars, loginVars>>

BezierCalls ==
  { [fn |-> "GenerateBezierPath", fromX |-> a, fromY |-> b, toX |-> c,
     toY |-> d, control |-> <<0, 0>>, pathX |-> <<>>, pathY |-> <<>>,
     done |-> FALSE] :
      a \in Coordinates, b \in Coordinates, c \in Coordinates,
      d \in Coordinates }

BezierInit == StealthInit(BezierCalls)

BezierNext == CallBezier

SpecBezier == BezierInit /\ [][BezierNext]_vars

Near(p, q) == p - q * Scale <= Scale /\ q * Scale - p <= Scale

\* C30: GenerateBezierPath returns 50 points, the first within 1 of the
\* start and the last within 1 of the end on each axis, whatever the
\* control point.
C30_BezierEndpoints ==
  (sim.fn = "GenerateBezierPath" /\ sim.done)
    => /\ Len(sim.pathX) = Steps /\ Len(sim.pathY) = Steps
       /\ Near(sim.pathX[1], sim.fromX) /\ Near(sim.pathY[1], sim.fromY)
       /\ Near(sim.pathX[Steps], sim.toX) /\ Near(sim.pathY[Steps], sim.toY)

C30_Witness ==
  /\ sim.fn = "GenerateBezierPath"
  /\ sim.done
  /\ sim.fromX # sim.toX
  /\ sim.control = <<0 - 50, 49>>
  /\ sim.pathX[1] = sim.fromX * Scale - Scale
  /\ sim.pathY[Steps] = sim.toY * Scale + Scale - 1


\* ------------------------------------------------------------------------
\* Repetition across runs
\* ------------------------------------------------------------------------
\* SendMessages reached the click on the Send control of the chat box
MessageSent(p) == p.message /\ ~p.lock /\ p.chat /\ p.send

Inserted == [k \in 1..(Len(db') - Len(db)) |-> db'[Len(db) + k].url]

NoRepeat(s) == \A i, j \in 1..Len(s) : s[i] = s[j] => i = j

\* C32: the list returned by SearchPeople holds exactly the URLs that this
\* run inserted into the store: it is empty when the page loop starts, every
\* iteration adds to it the URLs of the rows it appended and nothing else,
\* none of these had a record before, and no URL is in the list twice.
C32_ReturnsNewlyInserted ==
  [][ /\ (pc = "runSearchMode" /\ pc' = "search") => newProfiles' = <<>>
      /\ (pc = "search")
           => /\ Len(db') >= Len(db)
              /\ SubSeq(db', 1, Len(db)) = db
              /\ newProfiles' = newProfiles \o Inserted
              /\ \A k \in 1..Len(Inserted) : ~HasUrl(db, Inserted[k])
              /\ NoRepeat(newProfiles') ]_vars

\* the second result page of a run is read: the run inserted two URLs and
\* the store held a record before it
C32_Witness ==
  /\ mode = "search"
  /\ pc = "search"
  /\ pageNum = MaxPages
  /\ Len(newProfiles) = 2
  /\ Len(db) > Len(newProfiles)


\* the page offers a Connect control, directly or in the More menu
OffersConnect(p) == p.connect \/ (p.more /\ p.menuConnect)

SelectRows == 3

\* the stores: up to SelectRows rows, found or invited, created at 530 or
\* 540 and either never updated or updated at 550
SelectStores ==
  UNION { { [i \in 1..n |->
               [url |-> ProfileUrl(i), status |-> f[i][1],
                created_at |-> f[i][2],
                updated_at |-> IF f[i][3] THEN 550 ELSE f[i][2]]] :
            f \in [1..n -> {"found", "invited"} \X {530, 540} \X BOOLEAN] } :
          n \in 0..SelectRows }

SpecSelect ==
  /\ offset = 0
  /\ \E d \in SelectStores : QueueInit(d)
  /\ [][InviteNext]_vars

Min(a, b) == IF a < b THEN a ELSE b

RowOf(d, url) == d[CHOOSE i \in 1..Len(d) : d[i].url = url]

\* r holds the URLs of the min(limit, number of rows with status S) rows of
\* d with status S that are oldest by key, in ascending order of key
OldestOf(r, d, S, key, limit) ==
  LET rows == {i \in 1..Len(d) : d[i].status = S}
  IN /\ Len(r) = Min(limit, Cardinality(rows))
     /\ NoRepeat(r)
     /\ \A k \in 1..Len(r) : \E i \in rows : d[i].url = r[k]
     /\ \A k, l \in 1..Len(r) :
          k < l => RowOf(d, r[k])[key] <= RowOf(d, r[l])[key]
     /\ \A i \in rows :
          (\A k \in 1..Len(r) : r[k] # d[i].url)
            => \A k \in 1..Len(r) : RowOf(d, r[k])[key] <= d[i][key]

C35_BoundedReprobe ==
  (lpc = "verifyCookie")
    => /\ polls <= VerifyPolls
       /\ ENABLED VerifyCookie


\* ------------------------------------------------------------------------
\* internal/stealth: MoveMouseSmoothly
\* ------------------------------------------------------------------------
\* page.Mouse.Position() before the call
MoveStart == <<100, 100>>

\* the requested destinations, as vectors from the position before the call:
\* none, and vectors of whole length
MoveVectors ==
  { <<0, 0>>, <<30, 40>>, <<0 - 40, 30>>, <<50, 0>>, <<0, 0 - 5>> }

\* 10.0 + rand.Float64()*50.0 lies in [10, 60)
OvershootDistances == {10, 35, 55}

\* the overshoot position placed before the destination
OvershootPoint_Short(currentX, currentY, toX, toY, overshootDistance) ==
  LET dirX == toX - currentX
      dirY == toY - currentY
      length == CHOOSE r \in 0..(dirX * dirX + dirY * dirY) :
                  r * r = dirX * dirX + dirY * dirY
  IN IF length > 0
     THEN <<toX - (dirX * overshootDistance) \div length,
            toY - (dirY * overshootDistance) \div length>>
     ELSE <<toX - dirX * overshootDistance, toY - dirY * overshootDistance>>

\* MoveMouseSmoothly: the overshoot position; the direction is divided by
\* its length only when the length is positive
OvershootPoint(currentX, currentY, toX, toY, overshootDistance) ==
  LET dirX == toX - currentX
      dirY == toY - currentY
      length == CHOOSE r \in 0..(dirX * dirX + dirY * dirY) :
                  r * r = dirX * dirX + dirY * dirY
  IN IF length > 0
     THEN <<toX + (dirX * overshootDistance) \div length,
            toY + (dirY * overshootDistance) \div length>>
     ELSE <<toX + dirX * overshootDistance, toY + dirY * overshootDistance>>

\* the pointer after the loop over GenerateBezierPath(from, to): the last
\* point of the path, in units of 1 / Scale, o the draws of the control
\* point and n those of the noise
PathEnd(from, to, o, n) ==
  <<Bezier(from[1], to[1], from[1] + to[1] + 2 * o[1], n[1])[Steps],
    Bezier(from[2], to[2], from[2] + to[2] + 2 * o[2], n[2])[Steps]>>

\* MoveMouseSmoothly up to the pause at the overshoot position, or to its
\* end when shouldOvershoot is false
MoveMouseStart ==
  /\ sim.fn = "MoveMouseSmoothly"
  /\ sim.phase = "call"
  /\ \E shouldOvershoot \in BOOLEAN,
        overshootDistance \in OvershootDistances,
        o \in ControlOffsets \X ControlOffsets, n \in Noises \X Noises :
       IF shouldOvershoot
       THEN LET over == OvershootPoint(sim.current[1], sim.current[2],
                                       sim.to[1], sim.to[2],
                                       overshootDistance)
            IN sim' = [sim EXCEPT !.phase = "oops",
                                  !.shouldOvershoot = TRUE,
                                  !.overshoot = over,
                                  !.mouse = PathEnd(sim.current, over, o, n)]
       ELSE sim' = [sim EXCEPT !.phase = "done",
                               !.mouse = PathEnd(sim.current, sim.to, o, n)]
  /\ UNCHANGED <<mainVars, loginVars>>

\* MoveMouseSmoothly: the correction path from the overshoot position
MoveMouseCorrect ==
  /\ sim.fn = "MoveMouseSmoothly"
  /\ sim.phase = "oops"
  /\ \E o \in ControlOffsets \X ControlOffsets, n \in Noises \X Noises :
       sim' = [sim EXCEPT !.phase = "done",
                          !.mouse = PathEnd(sim.overshoot, sim.to, o, n)]
  /\ UNCHANGED <<mainVars, loginVars>>

MoveCalls ==
  { [fn |-> "MoveMouseSmoothly", current |-> MoveStart,
     to |-> <<MoveStart[1] + v[1], MoveStart[2] + v[2]>>,
     phase |-> "call", shouldOvershoot |-> FALSE, overshoot |-> <<0, 0>>,
     mouse |-> <<MoveStart[1] * Scale, MoveStart[2] * Scale>>] :
      v \in MoveVectors }

MoveNext ==
  \/ MoveMouseStart
  \/ MoveMouseCorrect

SpecMove == StealthInit(MoveCalls) /\ [][MoveNext]_vars

\* the pointer p, in units of 1 / Scale, is within the jitter of the point q
NearPoint(p, q) == Near(p[1], q[1]) /\ Near(p[2], q[2])

\* the point q lies beyond the destination along the direction of the move,
\* at a distance of 10 to 60
Beyond(q, from, to) ==
  LET dirX == to[1] - from[1]
      dirY == to[2] - from[2]
      pastX == q[1] - to[1]
      pastY == q[2] - to[2]
  IN /\ pastX * dirY = pastY * dirX
     /\ pastX * dirX + pastY * dirY > 0
     /\ pastX * pastX + pastY * pastY >= 10 * 10
     /\ pastX * pastX + pastY * pastY <= 60 * 60

\* C36: MoveMouseSmoothly ends with the pointer within the jitter bound of
\* the requested destination with and without overshoot; with overshoot the
\* pointer is first brought to a point 10 to 60 units beyond the destination
\* along the approach direction, and for a move of length zero that point
\* is the destination itself.
C36_MoveEndsAtDestination ==
  (sim.fn = "MoveMouseSmoothly")
    => /\ (sim.phase = "done") => NearPoint(sim.mouse, sim.to)
       /\ (sim.phase = "oops") => NearPoint(sim.mouse, sim.overshoot)
       /\ sim.shouldOvershoot
            => IF sim.current = sim.to
               THEN sim.overshoot = sim.to
               ELSE Beyond(sim.overshoot, sim.current, sim.to)

\* a move of length zero that took the overshoot branch has ended
C36_Witness ==
  /\ sim.fn = "MoveMouseSmoothly"
  /\ sim.phase = "done"
  /\ sim.shouldOvershoot
  /\ sim.current = sim.to
  /\ sim.overshoot = sim.to
  /\ NearPoint(sim.mouse, sim.to)


MaxClicks == 3

\* runConnectMode: one iteration of the loop over the batch.  db.Exec of
\* UpdateStatus returns nil or an error (the file is locked by another
\* connection, is read-only, or the disk is full: execOk is false) and the
\* result is dropped.  probe.seen holds the URLs whose Connect
\* control was activated and probe.repeat tells that one was activated in a
\* second visit.
ConnectVisitExec ==
  /\ pc = "connect"
  /\ profiles # <<>>
  /\ \E p \in ProfilePages, execOk \in BOOLEAN :
       LET profileURL == Head(profiles)
           status == ConnectWithProfile(p)
           newStatus == ConnectStatus(status)
       IN /\ status = "clicked" => sentToday < MaxClicks
          /\ cur' = profileURL
          /\ page' = p
          /\ outcome' = status
          /\ db' = IF newStatus = "" \/ ~execOk THEN db
                   ELSE UpdateStatus(db, profileURL, newStatus,
                                     CurrentTimestamp(now, offset))
          /\ successCount' = IF status = "clicked" THEN successCount + 1
                             ELSE successCount
          /\ sentToday' = IF status = "clicked" THEN sentToday + 1
                          ELSE sentToday
          /\ probe' = IF status = "clicked"
                      THEN [probe EXCEPT
                              !.url = profileURL,
                              !.seen = probe.seen \cup {profileURL},
                              !.repeat = probe.repeat
                                           \/ profileURL \in probe.seen]
                      ELSE probe
  /\ profiles' = Tail(profiles)
  /\ Goto(IF Tail(profiles) = <<>> THEN "stats" ELSE "connect")
  /\ UNCHANGED <<now, offset, runVars, todayCount, pageNum, newProfiles>>
  /\ UNCHANGED sideVars

ExecNext ==
  \/ Reaped
  \/ LoadConfigOk
  \/ CheckHours
  \/ InitDBOk
  \/ NewBrowserOk
  \/ LoginOk
  \/ DispatchConnect
  \/ RunConnectMode
  \/ ConnectVisitExec
  \/ Finish

\* the runs start from a store holding at most one batch of found records
SpecExec ==
  /\ offset = 0
  /\ \E n \in 1..InviteLimit : QueueInit(FoundQueue(n))
  /\ [][ExecNext]_vars

\* C38: across any sequence of invitation runs no target has its Connect
\* control activated in more than one visit, and after a visit with outcome
\* clicked the record is no longer found, also when the status update
\* issued after the click reports an error.
C38_OneClickPerTarget ==
  /\ ~probe.repeat
  /\ (ConnectVisited /\ outcome = "clicked")
       => (HasUrl(db, cur) /\ StatusOf(db, cur) # "found")


\* ------------------------------------------------------------------------
\* internal/linkedin: handleConnectionDialog
\* ------------------------------------------------------------------------
\* if len(message) > 300 { message = message[:300] }
NoteLimit == 300

\* log.Printf("... '%s...'", message[:15])
LogPrefix == 15

\* s[:n] of Go: the first n characters, a runtime panic for n > len(s)
Slice(s, n) ==
  IF n <= Len(s) THEN [panic |-> FALSE, text |-> SubSeq(s, 1, n)]
  ELSE [panic |-> TRUE, text |-> <<>>]

\* stealth.HumanType: the characters put into the element, one by one
HumanType(text) == [i \in 1..Len(text) |-> text[i]]

\* handleConnectionDialog with a note: the dialog shows the Add a note
\* button or not, the textarea is found or not, the Send button or not
HandleConnectionDialog ==
  /\ sim.fn = "handleConnectionDialog"
  /\ ~sim.done
  /\ LET message == IF Len(sim.message) > NoteLimit
                    THEN Slice(sim.message, NoteLimit).text
                    ELSE sim.message
         types == sim.message # <<>> /\ sim.noteBtn /\ sim.textArea
         logged == Slice(message, LogPrefix)
     IN IF types /\ logged.panic
        THEN sim' = [sim EXCEPT !.done = TRUE, !.panicked = TRUE]
        ELSE sim' = [sim EXCEPT
                       !.done = TRUE,
                       !.typed = IF types THEN HumanType(message) ELSE <<>>,
                       !.sent = sim.sendBtn]
  /\ UNCHANGED <<mainVars, loginVars>>

\* the calls: a note of n characters, each character named by its position
DialogCalls ==
  { [fn |-> "handleConnectionDialog", message |-> [i \in 1..n |-> i],
     noteBtn |-> b, textArea |-> t, sendBtn |-> s, typed |-> <<>>,
     sent |-> FALSE, panicked |-> FALSE, done |-> FALSE] :
      n \in {1, 2, LogPrefix - 1, LogPrefix, LogPrefix + 1, NoteLimit - 1,
             NoteLimit, NoteLimit + 1},
      b \in BOOLEAN, t \in BOOLEAN, s \in BOOLEAN }

SpecDialog == StealthInit(DialogCalls) /\ [][HandleConnectionDialog]_vars

\* C39: for every non-empty note, shorter than 15 characters or longer than
\* 300 included, handleConnectionDialog completes without a runtime panic
\* and what it typed is a prefix of the note of at most 300 characters.
C39_AnyNoteCompletes ==
  (sim.fn = "handleConnectionDialog" /\ sim.done)
    => /\ ~sim.panicked
       /\ Len(sim.typed) <= NoteLimit
       /\ Len(sim.typed) <= Len(sim.message)
       /\ sim.typed = SubSeq(sim.message, 1, Len(sim.typed))


\* ------------------------------------------------------------------------
\* Windows that end before they start
\* ------------------------------------------------------------------------
\* the configured window w has no minute: its end is not later than its
\* start
EmptyWindow(w) == w.end <= w.start

\* C40: when the configured WorkEnd is not later than WorkStart (the empty
\* 09:00-09:00, the overnight 22:00-06:00), config.Load accepts the two
\* values and CheckWorkingHours refuses the run at every minute of every
\* day: the run ends with exit code 1 and never opens the store.
C40_EmptyWindowRefusesAll ==
  \A w \in Windows :
    (EmptyWindow(w) /\ cfg = WindowCfg(w))
      => /\ Load(environ) = cfg
         /\ ~cfg.err
         /\ CheckWorkingHours(cfg.WorkStart, cfg.WorkEnd, Weekday(now),
                              MinuteOfDay(now)) # "ok"
         /\ (pc # "hours") => (pc = "exited" /\ exitCode = 1 /\ ~dbOpen)

\* a run at 23:00 of a working day under the window 22:00-06:00 was refused
C40_Witness ==
  /\ cfg = WindowCfg([start |-> 1320, end |-> 360])
  /\ Weekday(now) \in 1..5
  /\ MinuteOfDay(now) = 1380
  /\ pc = "exited"
  /\ exitCode = 1

====
